---- MODULE Spec2Model ----
(***************************************************************************)
(* Model of retouching/toolbox: framescomp.py (frame comparison tool),     *)
(* screenshots.py (screenshot tool) and the frame classifier they share.   *)
(*                                                                         *)
(* Conventions                                                             *)
(*  - Average luma (PlaneStatsAverage, a float in [0,1]) is an integer in  *)
(*    millionths: 0.062746 is 62746.  The thresholds of the code have six  *)
(*    decimals, so every comparison of the code is exact on this grid.     *)
(*  - A file path is a pair <<directory, file name>>; Path(p).name is the  *)
(*    second component.                                                    *)
(*  - Python None / False / 'I' / 'P' / 'B' of FRAMES_TYPE are the strings *)
(*    "None", "False", "I", "P", "B".                                      *)
(*  - Python lists are sequences; Python's 0-based frame index n of a clip *)
(*    is element n + 1 of the clip's sequence.                             *)
(*  - A clip is what get_clip returns, i.e. after the optional frame-rate  *)
(*    change; the frame-rate change itself is the video library's.         *)
(***************************************************************************)
EXTENDS Integers, Sequences, FiniteSets, TLC

VARIABLES
    \* ---- configuration (module-level settings, framescomp.py 26-48) ----
    FILES,              \* sequence of [file, sync]
    DARK_FRAMES, LIGHT_FRAMES, RANDOM_FRAMES,
    CUSTOM_FRAMES,      \* sequence of [file_index, frame_index]
    FRAMES_TYPE,        \* "None", "False", "I", "P", "B"
    SLOWPICS_ENABLED, KEEP_IMAGES,
    KEEP_IMAGES_PATH,   \* "None" or a directory name
    \* ---- environment ----
    videos,             \* path -> [state, frames]: the files on disk
    \* ---- state of main() ----
    pc,                 \* position in main()
    files_to_process,   \* usable sources, in FILES order
    opened,             \* paths handed to the decoder so far
    i,                  \* logical position of the analysis loop
    frames,             \* candidate list of frame groups
    bucket_idx,         \* position in the dark/light/random loop
    selected_frames,    \* bucket computed at line 274 for the current type
    frames_count,       \* clamped count of the current bucket
    buckets,            \* frames_type -> bucket computed at line 274
    captures,           \* category -> selected groups
    captures_keys,      \* insertion order of the keys of captures
    custom_idx,         \* position in the CUSTOM_FRAMES loop
    console,            \* messages printed so far
    disk,               \* output file -> image content
    fields,             \* comparisons declared to the service
    requests,           \* HTTP requests sent so far, with their outcome
    upload_idx,         \* position in the upload loop
    exit_code,          \* "running", "0", "1", "exception"
    \* ---- classifier harness ----
    avg, fc_type, ss_type,
    \* ---- screenshots.py: settings (20-41) and state of its main() ----
    \* (CUSTOM_FRAMES is there a list of frame indices; KEEP_IMAGES,
    \*  KEEP_IMAGES_PATH, videos, pc, opened, console, disk, requests and
    \*  exit_code are used as above)
    FILE,               \* the one source
    FRAMES_COUNT,       \* number of frames to draw at random
    UPLOAD_PROVIDER,    \* "None" or a string
    clip,               \* "None" or the opened source
    frames_index,       \* indices drawn at line 383
    files,              \* output files, in export order
    uploader            \* function looked up at lines 396-400, "None" before

cfgvars == <<FILES, DARK_FRAMES, LIGHT_FRAMES, RANDOM_FRAMES, CUSTOM_FRAMES,
             FRAMES_TYPE, SLOWPICS_ENABLED, KEEP_IMAGES, KEEP_IMAGES_PATH, videos>>
loadvars == <<files_to_process, opened>>
scanvars == <<i, frames>>
pickvars == <<bucket_idx, selected_frames, frames_count, buckets, captures,
              captures_keys, custom_idx, disk>>
pubvars  == <<fields, requests, upload_idx>>
clsvars  == <<avg, fc_type, ss_type>>
shotcfg  == <<FILE, FRAMES_COUNT, UPLOAD_PROVIDER>>
shotvars == <<shotcfg, clip, frames_index, files, uploader>>
vars == <<cfgvars, loadvars, scanvars, pickvars, pubvars, clsvars, shotvars,
          pc, console, exit_code>>

----------------------------------------------------------------------------
(* Bounds of the model *)

MaxFrames == 3          \* longest clip, in frames
MaxSync == 1            \* largest |sync| offset
MaxCount == 2           \* largest DARK_/LIGHT_/RANDOM_FRAMES
LumaMargin == 6         \* millionths examined on each side of a threshold

----------------------------------------------------------------------------
(* Generic helpers *)

Range(s) == {s[n] : n \in DOMAIN s}

Min(a, b) == IF a <= b THEN a ELSE b

SetMax(S) == CHOOSE x \in S : \A y \in S : y <= x

RECURSIVE Concat(_)
Concat(ss) == IF ss = <<>> THEN <<>> ELSE Head(ss) \o Concat(Tail(ss))

----------------------------------------------------------------------------
(* Frame classifier: get_frame_stats, lines 114-121 of framescomp.py and   *)
(* lines 100-107 of screenshots.py.                                        *)

classify_strict(a) ==
    IF 62746 < a /\ a < 380000 THEN "dark"
    ELSE IF 450000 < a /\ a < 800000 THEN "light"
    ELSE "random"

classify(a) ==
    IF 62746 <= a /\ a <= 380000 THEN "dark"
    ELSE IF 450000 <= a /\ a <= 800000 THEN "light"
    ELSE "random"

screenshots_classify(a) ==
    IF 62746 <= a /\ a <= 380000 THEN "dark"
    ELSE IF 450000 <= a /\ a <= 800000 THEN "light"
    ELSE "random"

Thresholds == {62746, 380000, 450000, 800000}

LumaSamples ==
    {0, 1000000, 30000, 200000, 415000, 600000, 900000}
    \cup {t + d : t \in Thresholds, d \in (-LumaMargin)..LumaMargin}

----------------------------------------------------------------------------
(* Files and clips *)

PA == <<"x", "a.mkv">>
PB == <<"x", "b.mkv">>
PC == <<"y", "a.mkv">>      \* same file name as PA, other directory
Paths == {PA, PB, PC}

Name(filepath) == filepath[2]                       \* Path(filepath).name

num_frames(filepath) == Len(videos[filepath].frames)

Truthy(v) == v \notin {"None", "False"}

\* get_clip: None unless the file exists and the decoder accepts it
get_clip_ok(filepath) == videos[filepath].state = "ok"

\* the decoder is handed every file that exists (line 85)
get_clip_opens(filepath) == videos[filepath].state # "missing"

\* the loop of lines 202-209
RECURSIVE load_files(_)
load_files(file_list) ==
    IF file_list = <<>> THEN <<>>
    ELSE (IF get_clip_ok(Head(file_list).file) THEN <<Head(file_list)>> ELSE <<>>)
         \o load_files(Tail(file_list))

\* the smallest frame count of the sources
min_frames ==
    CHOOSE x \in {num_frames(file.file) : file \in Range(files_to_process)} :
        \A y \in {num_frames(file.file) : file \in Range(files_to_process)} : x <= y

\* line 225
max_frames == SetMax({num_frames(file.file) : file \in Range(files_to_process)})

\* get_frame_stats, line 103: the index has no frame
out_of_range(filepath, frame_index) ==
    frame_index < 0 \/ frame_index + 1 > num_frames(filepath)

\* get_frame_stats, lines 106-137, for an index in range
get_frame_stats(filepath, frame_index) ==
    LET frame == videos[filepath].frames[frame_index + 1]
    IN  [index |-> frame_index, type |-> classify(frame.avg), PictType |-> frame.PictType]

frame_index_minus(pos, sync) == pos - sync

\* line 237
frame_index_of(pos, sync) == pos + sync

picture_type_mismatch_static(current_picture_type, PictType) ==
    FRAMES_TYPE # "False" /\ Truthy(FRAMES_TYPE) /\ PictType # FRAMES_TYPE

\* line 245
picture_type_mismatch(current_picture_type, PictType) ==
    FRAMES_TYPE # "False" /\ Truthy(current_picture_type) /\ PictType # current_picture_type

\* the inner loop of lines 235-250 at logical position pos, from source k on
RECURSIVE scan_sources(_, _, _, _)
scan_sources(pos, k, current_picture_type, current_frames) ==
    IF k > Len(files_to_process)
    THEN [push_frames |-> TRUE, current_frames |-> current_frames]
    ELSE LET file == files_to_process[k]
             frame_index == frame_index_of(pos, file.sync)
         IN  IF out_of_range(file.file, frame_index)
             THEN [push_frames |-> FALSE, current_frames |-> current_frames]
             ELSE LET frame_infos == get_frame_stats(file.file, frame_index)
                  IN  IF picture_type_mismatch(current_picture_type, frame_infos.PictType)
                      THEN [push_frames |-> FALSE, current_frames |-> current_frames]
                      ELSE scan_sources(pos, k + 1, frame_infos.PictType,
                               Append(current_frames,
                                      [file |-> file.file, index |-> frame_index,
                                       props |-> frame_infos]))

----------------------------------------------------------------------------
(* Buckets and sampling *)

Categories == {"custom", "dark", "light", "random"}

\* line 270
BucketOrder == <<"dark", "light", "random">>

requested(frames_type) ==
    CASE frames_type = "dark" -> DARK_FRAMES
      [] frames_type = "light" -> LIGHT_FRAMES
      [] frames_type = "random" -> RANDOM_FRAMES

in_bucket_any(grouped_frames, frames_type) ==
    \E n \in DOMAIN grouped_frames : grouped_frames[n].props.type = frames_type

\* line 274, the test of the comprehension
in_bucket(grouped_frames, frames_type) ==
    \A n \in DOMAIN grouped_frames : grouped_frames[n].props.type = frames_type

\* line 274
RECURSIVE filter_bucket(_, _)
filter_bucket(groups, frames_type) ==
    IF groups = <<>> THEN <<>>
    ELSE (IF in_bucket(Head(groups), frames_type) THEN <<Head(groups)>> ELSE <<>>)
         \o filter_bucket(Tail(groups), frames_type)

bucket_of(frames_type) == filter_bucket(frames, frames_type)

clamp_none(count, available) == count

\* line 275
clamp(count, available) == IF count <= available THEN count ELSE available

\* random.sample(population, k): every list of k elements at distinct positions
Samples(population, k) ==
    {[n \in 1..k |-> population[f[n]]] :
        f \in {g \in [1..k -> DOMAIN population] :
                  \A a, b \in 1..k : a # b => g[a] # g[b]}}

\* save_frame, line 144
output_dir ==
    IF ~KEEP_IMAGES \/ KEEP_IMAGES_PATH # "None" THEN "TEMP_DIR" ELSE KEEP_IMAGES_PATH

\* hashlib.md5 of the file name: a function of the name alone
md5(filename) == <<"md5", filename>>

\* save_frame, lines 143-145 and 187: the path written and returned
save_frame(filepath, frame_stats) ==
    [dir |-> output_dir, name |-> <<md5(Name(filepath)), frame_stats.index>>]

\* save_frame, lines 141 and 169-185: the picture written, frame index of the file
rendered(filepath, frame_stats) == [file |-> filepath, index |-> frame_stats.index]

\* lines 290-292 / 330-332: the frame with its capture
with_capture(frame) ==
    [file |-> frame.file, index |-> frame.index, props |-> frame.props,
     capture |-> save_frame(frame.file, frame.props)]

without_capture(frame) ==
    [file |-> frame.file, index |-> frame.index, props |-> frame.props]

capture_group(selected_frame) ==
    [n \in DOMAIN selected_frame |-> with_capture(selected_frame[n])]

\* the files written by exporting the frames of fs in order (overwrite=True)
RECURSIVE write_frames(_, _)
write_frames(d, fs) ==
    IF fs = <<>> THEN d
    ELSE write_frames(
            (save_frame(Head(fs).file, Head(fs).props)
                 :> rendered(Head(fs).file, Head(fs).props)) @@ d,
            Tail(fs))

has_frame(captured, filepath, frame_index) ==
    \E n \in DOMAIN captured :
        captured[n].file = filepath /\ captured[n].props.index = frame_index

is_already_used_custom_only(filepath, frame_index) ==
    \E g \in Range(captures["custom"]) : has_frame(g, filepath, frame_index)

\* lines 305-311
is_already_used(filepath, frame_index) ==
    \E key \in Range(captures_keys) :
        \E g \in Range(captures[key]) : has_frame(g, filepath, frame_index)

\* lines 318-321: position in frames of the first group holding the pair, or 0
find_group(filepath, frame_index) ==
    IF \E n \in DOMAIN frames : has_frame(frames[n], filepath, frame_index)
    THEN CHOOSE n \in DOMAIN frames :
            /\ has_frame(frames[n], filepath, frame_index)
            /\ \A m \in 1..(n - 1) : ~has_frame(frames[m], filepath, frame_index)
    ELSE 0

----------------------------------------------------------------------------
(* Publishing *)

\* lines 360-376: the comparisons declared, in the order of the dict captures
declared ==
    Concat([k \in DOMAIN captures_keys |->
        [n \in DOMAIN captures[captures_keys[k]] |->
            [name |-> captures_keys[k],
             imageNames |-> [j \in DOMAIN captures[captures_keys[k]][n] |->
                                Name(captures[captures_keys[k]][n][j].file)]]]])

upload_images_fixed_order ==
    captures["dark"] \o captures["light"] \o captures["random"] \o captures["custom"]

\* lines 407-410: the groups the upload loop indexes
upload_images == Concat([k \in DOMAIN captures_keys |-> captures[captures_keys[k]]])

\* lines 412-413: the slots of the response, one list per declared comparison
slot_order ==
    Concat([c \in DOMAIN fields |->
               [j \in DOMAIN fields[c].imageNames |-> <<c, j>>]])

----------------------------------------------------------------------------
(* main() of framescomp.py, one action per step *)

\* line 278
no_scene(frames_type) ==
    CASE frames_type = "dark" -> "no dark scene"
      [] frames_type = "light" -> "no light scene"
      [] frames_type = "random" -> "no random scene"

after_custom == IF SLOWPICS_ENABLED THEN "declare" ELSE "cleanup"

after_buckets == IF Len(CUSTOM_FRAMES) > 0 THEN "custom" ELSE after_custom

after_bucket(idx) == IF idx < Len(BucketOrder) THEN "filter" ELSE after_buckets

\* an uncaught exception leaves main(): the interpreter exits non-zero
Raise(message) ==
    /\ pc' = "crashed"
    /\ exit_code' = "exception"
    /\ console' = Append(console, message)

\* lines 194-200
Validate ==
    /\ pc = "validate"
    /\ IF KEEP_IMAGES /\ KEEP_IMAGES_PATH = "None"
       THEN /\ console' = Append(console, "no KEEP_IMAGES_PATH")
            /\ pc' = "exit" /\ exit_code' = "1"
       ELSE IF DARK_FRAMES < 1 /\ LIGHT_FRAMES < 1 /\ RANDOM_FRAMES < 1
               /\ Len(CUSTOM_FRAMES) < 1
       THEN /\ console' = Append(console, "no frame type to capture")
            /\ pc' = "exit" /\ exit_code' = "1"
       ELSE /\ pc' = "load"
            /\ UNCHANGED <<console, exit_code>>
    /\ UNCHANGED <<cfgvars, loadvars, scanvars, pickvars, pubvars, clsvars, shotvars>>

\* lines 202-209
LoadFiles ==
    /\ pc = "load"
    /\ files_to_process' = load_files(FILES)
    /\ opened' = {file.file : file \in {f \in Range(FILES) : get_clip_opens(f.file)}}
    /\ pc' = "check"
    /\ UNCHANGED <<cfgvars, scanvars, pickvars, pubvars, clsvars, shotvars, console, exit_code>>

\* lines 211-213
CheckFiles ==
    /\ pc = "check"
    /\ IF Len(files_to_process) < 2
       THEN /\ console' = Append(console, "2 files minimum")
            /\ pc' = "exit" /\ exit_code' = "1"
       ELSE /\ pc' = "analyse"
            /\ UNCHANGED <<console, exit_code>>
    /\ UNCHANGED <<cfgvars, loadvars, scanvars, pickvars, pubvars, clsvars, shotvars>>

\* lines 230-255, one logical position
Analyse ==
    /\ pc = "analyse"
    /\ LET scan == scan_sources(i, 1, FRAMES_TYPE, <<>>)
       IN  frames' = IF scan.push_frames THEN Append(frames, scan.current_frames)
                     ELSE frames
    /\ i' = i + 1
    /\ pc' = IF i + 1 < max_frames THEN "analyse" ELSE "filter"
    /\ UNCHANGED <<cfgvars, loadvars, pickvars, pubvars, clsvars, shotvars, console, exit_code>>

skip_bucket_never(count) == FALSE

\* line 277
skip_bucket(count) == count < 1

\* lines 270-279
FilterBucket ==
    /\ pc = "filter"
    /\ LET frames_type == BucketOrder[bucket_idx]
           count == requested(frames_type)
           bucket == bucket_of(frames_type)
       IN  IF count < 1
           THEN /\ bucket_idx' = bucket_idx + 1
                /\ pc' = after_bucket(bucket_idx)
                /\ UNCHANGED <<selected_frames, frames_count, buckets, console>>
           ELSE /\ selected_frames' = bucket
                /\ buckets' = (frames_type :> bucket) @@ buckets
                /\ frames_count' = clamp(count, Len(bucket))
                /\ IF skip_bucket(clamp(count, Len(bucket)))
                   THEN /\ console' = Append(console, no_scene(frames_type))
                        /\ bucket_idx' = bucket_idx + 1
                        /\ pc' = after_bucket(bucket_idx)
                   ELSE /\ pc' = "sample"
                        /\ UNCHANGED <<bucket_idx, console>>
    /\ UNCHANGED <<cfgvars, loadvars, scanvars, captures, captures_keys, custom_idx,
                   disk, pubvars, clsvars, shotvars, exit_code>>

\* lines 281-297
SampleBucket ==
    /\ pc = "sample"
    /\ IF frames_count > Len(selected_frames)
       THEN /\ Raise("ValueError: sample larger than population")
            /\ UNCHANGED <<bucket_idx, selected_frames, captures, captures_keys, disk>>
       ELSE /\ \E sample \in Samples(selected_frames, frames_count) :
                 /\ selected_frames' = sample
                 /\ captures' = [captures EXCEPT ![BucketOrder[bucket_idx]] =
                                    [n \in DOMAIN sample |-> capture_group(sample[n])]]
                 /\ disk' = write_frames(disk, Concat(sample))
            /\ captures_keys' = Append(captures_keys, BucketOrder[bucket_idx])
            /\ bucket_idx' = bucket_idx + 1
            /\ pc' = after_bucket(bucket_idx)
            /\ UNCHANGED <<console, exit_code>>
    /\ UNCHANGED <<cfgvars, loadvars, scanvars, frames_count, buckets, custom_idx,
                   pubvars, clsvars, shotvars>>

\* lines 303-335, one custom request
CustomFrame ==
    /\ pc = "custom"
    /\ LET custom_frame == CUSTOM_FRAMES[custom_idx]
           file == FILES[custom_frame.file_index + 1]
           found == find_group(file.file, custom_frame.frame_index)
       IN  IF is_already_used(file.file, custom_frame.frame_index)
           THEN /\ console' = Append(console, "already used")
                /\ UNCHANGED <<selected_frames, captures, disk>>
           ELSE IF found = 0
           THEN /\ console' = Append(console, "not available")
                /\ selected_frames' = <<>>
                /\ UNCHANGED <<captures, disk>>
           ELSE /\ selected_frames' = frames[found]
                /\ captures' = [captures EXCEPT !["custom"] =
                                   Append(@, capture_group(frames[found]))]
                /\ disk' = write_frames(disk, frames[found])
                /\ UNCHANGED console
    /\ custom_idx' = custom_idx + 1
    /\ pc' = IF custom_idx < Len(CUSTOM_FRAMES) THEN "custom" ELSE after_custom
    /\ UNCHANGED <<cfgvars, loadvars, scanvars, bucket_idx, frames_count, buckets,
                   captures_keys, pubvars, clsvars, shotvars, exit_code>>

\* lines 357-376
Declare ==
    /\ pc = "declare"
    /\ fields' = declared
    /\ pc' = "session_get"
    /\ UNCHANGED <<cfgvars, loadvars, scanvars, pickvars, requests, upload_idx,
                   clsvars, shotvars, console, exit_code>>

HttpStatus == {"ok", "error"}

\* line 378: the response is not examined
SessionGet ==
    /\ pc = "session_get"
    /\ \E status \in HttpStatus :
          requests' = Append(requests, [to |-> "comparison page", status |-> status])
    /\ pc' = "post"
    /\ UNCHANGED <<cfgvars, loadvars, scanvars, pickvars, fields, upload_idx,
                   clsvars, shotvars, console, exit_code>>

\* lines 391-410
PostComparison ==
    /\ pc = "post"
    /\ \E status \in HttpStatus :
          /\ requests' = Append(requests, [to |-> "upload/comparison", status |-> status])
          /\ IF status # "ok"
             THEN Raise("HTTPError")
             ELSE IF fields = <<>>
             THEN Raise("IndexError: images[0]")
             ELSE /\ pc' = "upload"
                  /\ UNCHANGED <<console, exit_code>>
    /\ UNCHANGED <<cfgvars, loadvars, scanvars, pickvars, fields, upload_idx, clsvars, shotvars>>

\* lines 412-438, one image
UploadImage ==
    /\ pc = "upload"
    /\ LET slot == slot_order[upload_idx]
           image == upload_images[slot[1]][slot[2]].capture
       IN  \E status \in HttpStatus :
              /\ requests' = Append(requests,
                     [to |-> "upload/image", status |-> status,
                      imageUuid |-> slot, file |-> disk[image]])
              /\ IF status # "ok"
                 THEN /\ Raise("HTTPError")
                      /\ UNCHANGED upload_idx
                 ELSE /\ upload_idx' = upload_idx + 1
                      /\ pc' = IF upload_idx < Len(slot_order) THEN "upload" ELSE "report"
                      /\ UNCHANGED <<console, exit_code>>
    /\ UNCHANGED <<cfgvars, loadvars, scanvars, pickvars, fields, clsvars, shotvars>>

\* lines 440-441
ReportUrl ==
    /\ pc = "report"
    /\ console' = Append(console, "slowpics url")
    /\ pc' = "cleanup"
    /\ UNCHANGED <<cfgvars, loadvars, scanvars, pickvars, pubvars, clsvars, shotvars, exit_code>>

\* lines 445-457
Cleanup ==
    /\ pc = "cleanup"
    /\ disk' = [o \in {p \in DOMAIN disk : p.dir # "TEMP_DIR"} |-> disk[o]]
    /\ pc' = "done"
    /\ exit_code' = "0"
    /\ UNCHANGED <<cfgvars, loadvars, scanvars, bucket_idx, selected_frames,
                   frames_count, buckets, captures, captures_keys, custom_idx,
                   pubvars, clsvars, shotvars, console>>

----------------------------------------------------------------------------
(* Classifier harness: the two tools classify the same luma value *)

ClassifyFramescomp ==
    /\ pc = "classify"
    /\ fc_type = "unset"
    /\ fc_type' = classify(avg)
    /\ UNCHANGED <<cfgvars, loadvars, scanvars, pickvars, pubvars, avg, ss_type,
                   shotvars, pc, console, exit_code>>

ClassifyScreenshots ==
    /\ pc = "classify"
    /\ ss_type = "unset"
    /\ ss_type' = screenshots_classify(avg)
    /\ UNCHANGED <<cfgvars, loadvars, scanvars, pickvars, pubvars, avg, fc_type,
                   shotvars, pc, console, exit_code>>

----------------------------------------------------------------------------
(* screenshots.py: main() *)

\* str.lower on the provider names examined
lower(name) ==
    CASE name = "Catbox" -> "catbox"
      [] name = "SLOWPICS" -> "slowpics"
      [] OTHER -> name

\* line 354: the names validation compares against
provider_names == {"catbox", "imgur", "slowpics"}

\* lines 396-400: the keys of the dispatch table
uploaders == {"catbox", "imgur", "slowpics"}

\* get_frame_stats of screenshots.py, lines 89-90: None is returned
screenshots_out_of_range(filepath, frame_index) ==
    frame_index < 0 \/ frame_index + 1 > num_frames(filepath)

\* get_frame_stats of screenshots.py, lines 92-123, for an index in range
screenshots_get_frame_stats(filepath, frame_index) ==
    [index |-> frame_index,
     type |-> screenshots_classify(videos[filepath].frames[frame_index + 1].avg)]

\* save_frame of screenshots.py, line 130
screenshots_output_dir ==
    IF ~KEEP_IMAGES \/ KEEP_IMAGES_PATH = "None" THEN "TEMP_DIR" ELSE KEEP_IMAGES_PATH

\* save_frame of screenshots.py, lines 129-131 and 174: the path written
screenshots_save_frame(filepath, frame_stats) ==
    [dir |-> screenshots_output_dir,
     name |-> <<md5(Name(filepath)), frame_stats.index>>]

\* line 383: the indices of the clip from index on that are not custom frames
RECURSIVE population(_)
population(index) ==
    IF index >= num_frames(clip) THEN <<>>
    ELSE (IF index \in Range(CUSTOM_FRAMES) THEN <<>> ELSE <<index>>)
         \o population(index + 1)

\* line 389: the frames to export, in order
export_order == frames_index \o CUSTOM_FRAMES

Request(to, checked, file) == [to |-> to, checked |-> checked, file |-> file]

\* upload_catbox (177-216), upload_imgur (219-266), upload_slowpics
\* (269-344): the requests an uploader sends, in order, and whether the
\* response is examined (raise_for_status, or the clientId match)
upload_plan(provider, screenshots) ==
    CASE provider = "catbox" ->
            [k \in DOMAIN screenshots |-> Request("catbox fileupload", TRUE, screenshots[k])]
            \o <<Request("catbox createalbum", TRUE, "None")>>
      [] provider = "imgur" ->
            <<Request("imgur main.js", TRUE, "None")>>
            \o [k \in DOMAIN screenshots |-> Request("imgur image", TRUE, screenshots[k])]
            \o <<Request("imgur album", TRUE, "None")>>
      [] provider = "slowpics" ->
            <<Request("slow.pics/collection", FALSE, "None"),
              Request("slow.pics/upload/collection", TRUE, "None")>>
            \o [k \in DOMAIN screenshots |->
                   Request("slow.pics/upload/image", TRUE, screenshots[k])]

\* what a request can come back with; lines 227-229: the page may lack a clientId
Outcomes(request) ==
    IF request.to = "imgur main.js" THEN HttpStatus \cup {"no clientId"} ELSE HttpStatus

\* what no action of screenshots.py changes
shotfixed == <<cfgvars, files_to_process, scanvars, bucket_idx, selected_frames,
               frames_count, buckets, captures, captures_keys, custom_idx,
               fields, upload_idx, clsvars, shotcfg>>

\* lines 350-364
ScreenshotsValidate ==
    /\ pc = "shot_validate"
    /\ IF ~KEEP_IMAGES /\ ~Truthy(UPLOAD_PROVIDER)
       THEN /\ console' = Append(console, "images are not saved anywhere")
            /\ pc' = "exit" /\ exit_code' = "1"
       ELSE IF Truthy(UPLOAD_PROVIDER) /\ lower(UPLOAD_PROVIDER) \notin provider_names
       THEN /\ console' = Append(console, "UPLOAD_PROVIDER seem to be invalid")
            /\ pc' = "exit" /\ exit_code' = "1"
       ELSE IF KEEP_IMAGES /\ KEEP_IMAGES_PATH = "None"
       THEN /\ console' = Append(console, "no KEEP_IMAGES_PATH")
            /\ pc' = "exit" /\ exit_code' = "1"
       ELSE IF FRAMES_COUNT < 1 /\ Len(CUSTOM_FRAMES) < 1
       THEN /\ console' = Append(console, "No frame to capture")
            /\ pc' = "exit" /\ exit_code' = "1"
       ELSE /\ pc' = "shot_get_clip"
            /\ UNCHANGED <<console, exit_code>>
    /\ UNCHANGED <<shotfixed, opened, disk, requests, clip, frames_index, files,
                   uploader>>

\* lines 366-373
ScreenshotsGetClip ==
    /\ pc = "shot_get_clip"
    /\ opened' = IF get_clip_opens(FILE) THEN opened \cup {FILE} ELSE opened
    /\ IF get_clip_ok(FILE)
       THEN /\ clip' = FILE
            /\ pc' = "shot_check"
            /\ UNCHANGED <<console, exit_code>>
       ELSE /\ console' = Append(console, "Invalid file provided")
            /\ pc' = "exit" /\ exit_code' = "1"
            /\ UNCHANGED clip
    /\ UNCHANGED <<shotfixed, disk, requests, frames_index, files, uploader>>

\* lines 375-381
ScreenshotsCheckFrames ==
    /\ pc = "shot_check"
    /\ IF FRAMES_COUNT + Len(CUSTOM_FRAMES) > num_frames(clip)
       THEN /\ console' = Append(console, "Too many frames requested")
            /\ pc' = "exit" /\ exit_code' = "1"
       ELSE IF \E n \in DOMAIN CUSTOM_FRAMES : CUSTOM_FRAMES[n] > num_frames(clip)
       THEN /\ console' = Append(console, "Invalid custom frames provided")
            /\ pc' = "exit" /\ exit_code' = "1"
       ELSE /\ pc' = "shot_sample"
            /\ UNCHANGED <<console, exit_code>>
    /\ UNCHANGED <<shotfixed, opened, disk, requests, clip, frames_index, files,
                   uploader>>

\* lines 383-384
ScreenshotsSample ==
    /\ pc = "shot_sample"
    /\ IF FRAMES_COUNT > Len(population(0))
       THEN /\ Raise("ValueError")
            /\ UNCHANGED frames_index
       ELSE /\ frames_index' \in Samples(population(0), FRAMES_COUNT)
            /\ pc' = "shot_save"
            /\ UNCHANGED <<console, exit_code>>
    /\ UNCHANGED <<shotfixed, opened, disk, requests, clip, files, uploader>>

\* lines 389-391, one frame; line 394 when the list is exhausted
ScreenshotsSaveFrame ==
    /\ pc = "shot_save"
    /\ LET frame_index == export_order[Len(files) + 1]
           frame_stats == screenshots_get_frame_stats(clip, frame_index)
       IN  IF screenshots_out_of_range(clip, frame_index)
           THEN /\ Raise("AttributeError")        \* save_frame(FILE, None), line 131
                /\ UNCHANGED <<disk, files>>
           ELSE LET output == screenshots_save_frame(FILE, frame_stats)
                IN  /\ disk' = [o \in DOMAIN disk \cup {output} |->
                                   IF o = output THEN rendered(FILE, frame_stats)
                                   ELSE disk[o]]
                    /\ files' = Append(files, output)
                    /\ pc' = IF Len(files) + 1 < Len(export_order)
                             THEN "shot_save" ELSE "shot_dispatch"
                    /\ UNCHANGED <<console, exit_code>>
    /\ UNCHANGED <<shotfixed, opened, requests, clip, frames_index, uploader>>

\* lines 395-400: the table is indexed by the setting as written
ScreenshotsDispatch ==
    /\ pc = "shot_dispatch"
    /\ IF ~Truthy(UPLOAD_PROVIDER)
       THEN /\ pc' = "shot_cleanup"
            /\ UNCHANGED <<uploader, console, exit_code>>
       ELSE IF UPLOAD_PROVIDER \notin uploaders
       THEN /\ Raise("KeyError")
            /\ UNCHANGED uploader
       ELSE /\ uploader' = UPLOAD_PROVIDER
            /\ pc' = "shot_upload"
            /\ UNCHANGED <<console, exit_code>>
    /\ UNCHANGED <<shotfixed, opened, disk, requests, clip, frames_index, files>>

\* the uploader called at line 400 (177-344), one request; line 402 after the last
ScreenshotsUpload ==
    /\ pc = "shot_upload"
    /\ LET plan == upload_plan(uploader, files)
           request == plan[Len(requests) + 1]
       IN  \E status \in Outcomes(request) :
              /\ requests' = Append(requests,
                     [to |-> request.to, status |-> status, file |-> request.file])
              /\ IF request.checked /\ status # "ok"
                 THEN Raise(IF status = "error" THEN "HTTPError" ELSE "Exception")
                 ELSE IF Len(requests) + 1 < Len(plan)
                 THEN UNCHANGED <<pc, console, exit_code>>
                 ELSE /\ console' = Append(console, "URL")
                      /\ pc' = "shot_cleanup"
                      /\ UNCHANGED exit_code
    /\ UNCHANGED <<shotfixed, opened, disk, clip, frames_index, files, uploader>>

\* lines 406-417
ScreenshotsCleanup ==
    /\ pc = "shot_cleanup"
    /\ disk' = [o \in {p \in DOMAIN disk : p.dir # "TEMP_DIR"} |-> disk[o]]
    /\ pc' = "done"
    /\ exit_code' = "0"
    /\ UNCHANGED <<shotfixed, opened, requests, clip, frames_index, files, uploader,
                   console>>

----------------------------------------------------------------------------
(* Initial states: the configurations and files examined *)

\* one luma value inside each class
LumaOf(class) ==
    CASE class = "dark" -> 200000
      [] class = "light" -> 600000
      [] class = "random" -> 900000

Dark == LumaOf("dark")
Light == LumaOf("light")
Random == LumaOf("random")

Frame(a, t) == [avg |-> a, PictType |-> t]
Video(fs) == [state |-> "ok", frames |-> fs]
Missing == [state |-> "missing", frames |-> <<>>]
Undecodable == [state |-> "undecodable", frames |-> <<>>]

Source(filepath, sync) == [file |-> filepath, sync |-> sync]
Custom(file_index, frame_index) == [file_index |-> file_index, frame_index |-> frame_index]

Syncs == (-MaxSync)..MaxSync
Lengths == 1..MaxFrames
PictTypes == {"I", "P", "B"}
Lumas == {Dark, Light, Random}

Uniform(n) == Video([k \in 1..n |-> Frame(Dark, "I")])
Typed(ts) == Video([k \in DOMAIN ts |-> Frame(Dark, ts[k])])
Lit(ls) == Video([k \in DOMAIN ls |-> Frame(ls[k], "I")])

UpTo2(S) == {<<>>} \cup {<<a>> : a \in S} \cup {<<a, b>> : a, b \in S}

Config(file_list, vids, d, l, r, custom, ft, slow, keep, keep_path) ==
    [FILES |-> file_list, videos |-> vids, DARK_FRAMES |-> d, LIGHT_FRAMES |-> l,
     RANDOM_FRAMES |-> r, CUSTOM_FRAMES |-> custom, FRAMES_TYPE |-> ft,
     SLOWPICS_ENABLED |-> slow, KEEP_IMAGES |-> keep, KEEP_IMAGES_PATH |-> keep_path]

\* sync offsets and clip lengths of two or three sources, one of them listed twice
SyncConfigs ==
    {Config(<<Source(PA, s1), Source(PB, s2)>>,
            (PA :> Uniform(n1)) @@ (PB :> Uniform(n2)) @@ (PC :> Missing),
            1, 0, 0, <<>>, ft, FALSE, FALSE, "None") :
        s1 \in Syncs, s2 \in Syncs, n1 \in Lengths, n2 \in Lengths,
        ft \in {"None", "False"}}
    \cup
    {Config(<<Source(PA, s1), Source(PA, s2)>>,
            (PA :> Uniform(n1)) @@ (PB :> Missing) @@ (PC :> Missing),
            MaxCount, 0, 0, <<>>, "None", FALSE, FALSE, "None") :
        s1 \in Syncs, s2 \in Syncs, n1 \in Lengths}
    \cup
    {Config(<<Source(PA, s1), Source(PB, s2), Source(PC, s3)>>,
            (PA :> Uniform(n1)) @@ (PB :> Uniform(n2)) @@ (PC :> Uniform(n3)),
            1, 0, 0, <<>>, "None", FALSE, FALSE, "None") :
        s1 \in Syncs, s2 \in Syncs, s3 \in {0}, n1 \in Lengths, n2 \in Lengths,
        n3 \in Lengths}

TypeFrames == 2         \* frames per clip where picture types vary

FrameTypes == {"None", "False", "I", "P", "B"}

\* picture types of every frame of two sources, and of one frame of three sources
TypeConfigs ==
    {Config(<<Source(PA, 0), Source(PB, 0)>>,
            (PA :> Typed(t1)) @@ (PB :> Typed(t2)) @@ (PC :> Missing),
            1, 0, 0, <<>>, ft, FALSE, FALSE, "None") :
        t1 \in [1..TypeFrames -> PictTypes], t2 \in [1..TypeFrames -> PictTypes],
        ft \in FrameTypes}
    \cup
    {Config(<<Source(PA, 0), Source(PB, 0), Source(PC, 0)>>,
            (PA :> Typed(<<t1>>)) @@ (PB :> Typed(<<t2>>)) @@ (PC :> Typed(<<t3>>)),
            1, 0, 0, <<>>, ft, FALSE, FALSE, "None") :
        t1 \in PictTypes, t2 \in PictTypes, t3 \in PictTypes, ft \in FrameTypes}

AllDark == [k \in 1..MaxFrames |-> Dark]

\* luma of every frame of one source, the other equal to it or all dark, and counts
BucketConfigs ==
    {Config(<<Source(PA, 0), Source(PB, 0)>>,
            (PA :> Lit(l1)) @@ (PB :> Lit(IF same THEN l1 ELSE AllDark))
            @@ (PC :> Missing),
            d, l, r, <<>>, "False", FALSE, FALSE, "None") :
        l1 \in [1..MaxFrames -> Lumas], same \in BOOLEAN,
        d \in 0..MaxCount, l \in 0..1, r \in 0..1}

Mostly(a, b) == [k \in 1..MaxFrames |-> IF k = MaxFrames THEN b ELSE a]

CustomPairs == {Custom(f, n) : f \in 0..1, n \in 0..MaxFrames}

\* custom requests over distinct sources, a source listed twice, equal file names
CustomConfigs ==
    {Config(file_list, (PA :> Lit(Mostly(Dark, Light))) @@ (PB :> Lit(AllDark))
                   @@ (PC :> Lit(AllDark)),
            d, 0, 0, custom, "False", FALSE, FALSE, "None") :
        file_list \in {<<Source(PA, 0), Source(PB, 0)>>,
                   <<Source(PA, 0), Source(PA, 1)>>,
                   <<Source(PA, 0), Source(PC, 0)>>},
        d \in 0..1,
        custom \in UpTo2(CustomPairs)
                   \cup {<<Custom(0, 0), b, c>> :
                            b, c \in {Custom(1, 0), Custom(0, MaxFrames)}}}

Cycle == [k \in 1..MaxFrames |-> CASE k % 3 = 1 -> Dark [] k % 3 = 2 -> Light
                                   [] OTHER -> Random]

\* publishing a selection drawn from every combination of categories
PublishConfigs ==
    {Config(<<Source(PA, 0), Source(other, 0)>>,
            (PA :> Lit(Cycle)) @@ (PB :> Lit(Cycle)) @@ (PC :> Lit(Cycle)),
            d, l, r, custom, "False", TRUE, keep, IF keep THEN "keep" ELSE "None") :
        other \in {PB, PC}, d \in 0..1, l \in 0..1, r \in 0..1,
        custom \in {<<>>, <<Custom(0, 0)>>, <<Custom(1, 1)>>, <<Custom(0, MaxFrames)>>},
        keep \in BOOLEAN}

\* settings and files that validation may reject
ValidationConfigs ==
    {Config(file_list, (PA :> va) @@ (PB :> vb) @@ (PC :> Missing),
            d, 0, 0, custom, "None", slow, keep, keep_path) :
        file_list \in {<<>>, <<Source(PA, 0)>>, <<Source(PA, 0), Source(PB, 0)>>},
        va \in {Uniform(1), Missing, Undecodable},
        vb \in {Uniform(1), Missing},
        d \in 0..1, custom \in {<<>>, <<Custom(0, 0)>>},
        slow \in BOOLEAN, keep \in BOOLEAN, keep_path \in {"None", "keep"}}

\* a light bucket requested from sources that have dark frames only
EmptyBucketConfigs ==
    {Config(<<Source(PA, 0), Source(PB, 0)>>,
            (PA :> Lit(AllDark)) @@ (PB :> Lit(AllDark)) @@ (PC :> Missing),
            d, 1, r, custom, "False", slow, FALSE, "None") :
        d \in 0..MaxCount, r \in 0..1, custom \in {<<>>, <<Custom(0, 0)>>},
        slow \in BOOLEAN}

Configs ==
    SyncConfigs \cup TypeConfigs \cup BucketConfigs \cup CustomConfigs
    \cup PublishConfigs \cup ValidationConfigs \cup EmptyBucketConfigs

Start ==
    /\ files_to_process = <<>>
    /\ opened = {}
    /\ i = 0
    /\ frames = <<>>
    /\ bucket_idx = 1
    /\ selected_frames = <<>>
    /\ frames_count = 0
    /\ buckets = [c \in {} |-> <<>>]
    /\ captures = [c \in Categories |-> <<>>]       \* line 266: only 'custom' is a key
    /\ captures_keys = <<"custom">>
    /\ custom_idx = 1
    /\ console = <<>>
    /\ disk = [o \in {} |-> <<>>]
    /\ fields = <<>>
    /\ requests = <<>>
    /\ upload_idx = 1
    /\ exit_code = "running"

Configured(c) ==
    /\ FILES = c.FILES
    /\ videos = c.videos
    /\ DARK_FRAMES = c.DARK_FRAMES
    /\ LIGHT_FRAMES = c.LIGHT_FRAMES
    /\ RANDOM_FRAMES = c.RANDOM_FRAMES
    /\ CUSTOM_FRAMES = c.CUSTOM_FRAMES
    /\ FRAMES_TYPE = c.FRAMES_TYPE
    /\ SLOWPICS_ENABLED = c.SLOWPICS_ENABLED
    /\ KEEP_IMAGES = c.KEEP_IMAGES
    /\ KEEP_IMAGES_PATH = c.KEEP_IMAGES_PATH

\* screenshots.py is not running
NoScreenshots ==
    /\ FILE = PA /\ FRAMES_COUNT = 0 /\ UPLOAD_PROVIDER = "None"
    /\ clip = "None" /\ frames_index = <<>> /\ files = <<>> /\ uploader = "None"

Init ==
    /\ \E c \in Configs : Configured(c)
    /\ Start
    /\ NoScreenshots
    /\ pc = "validate"
    /\ avg = 0 /\ fc_type = "unset" /\ ss_type = "unset"

Next ==
    \/ Validate
    \/ LoadFiles
    \/ CheckFiles
    \/ Analyse
    \/ FilterBucket
    \/ SampleBucket
    \/ CustomFrame
    \/ Declare
    \/ SessionGet
    \/ PostComparison
    \/ UploadImage
    \/ ReportUrl
    \/ Cleanup

Spec == Init /\ [][Next]_vars

InitClassify ==
    /\ Configured(Config(<<>>, [p \in Paths |-> Missing], 0, 0, 0, <<>>, "None",
                         FALSE, FALSE, "None"))
    /\ Start
    /\ NoScreenshots
    /\ pc = "classify"
    /\ avg \in LumaSamples
    /\ fc_type = "unset" /\ ss_type = "unset"

NextClassify == ClassifyFramescomp \/ ClassifyScreenshots

SpecClassify == InitClassify /\ [][NextClassify]_vars

\* the indices a CUSTOM_FRAMES entry of screenshots.py is drawn from: every
\* index of the longest clip, one below and two above
CustomIndices == (-1)..(MaxFrames + 1)

Providers == {"None", "catbox", "imgur", "slowpics", "Catbox", "SLOWPICS", "dropbox"}

InitScreenshots ==
    /\ FILES = <<>> /\ DARK_FRAMES = 0 /\ LIGHT_FRAMES = 0 /\ RANDOM_FRAMES = 0
    /\ FRAMES_TYPE = "None" /\ SLOWPICS_ENABLED = FALSE
    /\ Start
    /\ FILE = PA
    /\ \E v \in {Lit([k \in 1..n |-> Cycle[k]]) : n \in Lengths} \cup {Missing, Undecodable} :
          videos = (PA :> v) @@ (PB :> Missing) @@ (PC :> Missing)
    /\ FRAMES_COUNT \in 0..MaxCount
    /\ CUSTOM_FRAMES \in UpTo2(CustomIndices)
    /\ UPLOAD_PROVIDER \in Providers
    /\ KEEP_IMAGES \in BOOLEAN
    /\ KEEP_IMAGES_PATH \in {"None", "keep"}
    /\ clip = "None" /\ frames_index = <<>> /\ files = <<>> /\ uploader = "None"
    /\ pc = "shot_validate"
    /\ avg = 0 /\ fc_type = "unset" /\ ss_type = "unset"

NextScreenshots ==
    \/ ScreenshotsValidate
    \/ ScreenshotsGetClip
    \/ ScreenshotsCheckFrames
    \/ ScreenshotsSample
    \/ ScreenshotsSaveFrame
    \/ ScreenshotsDispatch
    \/ ScreenshotsUpload
    \/ ScreenshotsCleanup

SpecScreenshots == InitScreenshots /\ [][NextScreenshots]_vars

----------------------------------------------------------------------------
(* Vocabulary of the properties *)

Standard == {"dark", "light", "random"}

InsideThresholds(v, low, high) == low <= v /\ v <= high

\* the group g holds, for every source in order, the frame at logical position pos
AlignedAt(g, pos) ==
    /\ Len(g) = Len(files_to_process)
    /\ \A k \in DOMAIN g :
          /\ g[k].file = files_to_process[k].file
          /\ g[k].index = pos + files_to_process[k].sync
          /\ g[k].props.index = g[k].index

\* every source has a frame at logical position pos
AllInRange(pos) ==
    \A k \in DOMAIN files_to_process :
        /\ 0 <= pos + files_to_process[k].sync
        /\ pos + files_to_process[k].sync < num_frames(files_to_process[k].file)

LogicalPosition(g) == g[1].index - files_to_process[1].sync

Survives(pos) == \E n \in DOMAIN frames : AlignedAt(frames[n], pos)

Scanned == 0..(i - 1)

\* picture type of source k at logical position pos
PictTypeAt(k, pos) ==
    videos[files_to_process[k].file].frames[pos + files_to_process[k].sync + 1].PictType

PairwiseEqualTypes(pos) ==
    \A a, b \in DOMAIN files_to_process : PictTypeAt(a, pos) = PictTypeAt(b, pos)

AllOfType(pos, t) == \A k \in DOMAIN files_to_process : PictTypeAt(k, pos) = t

Classes(g) == {g[k].props.type : k \in DOMAIN g}

Mixed(g) == Cardinality(Classes(g)) > 1

Plain(g) == [k \in DOMAIN g |-> without_capture(g[k])]

Pairs(g) == {<<g[k].file, g[k].index>> : k \in DOMAIN g}

\* the final selection, category by category
Selection ==
    captures["dark"] \o captures["light"] \o captures["random"] \o captures["custom"]

BucketDone(c) == \E n \in DOMAIN BucketOrder : BucketOrder[n] = c /\ n < bucket_idx

BucketSet(c) == {n \in DOMAIN frames : Classes(frames[n]) = {c}}

ScanFinished == pc \notin {"validate", "load", "check", "analyse", "exit", "classify"}

----------------------------------------------------------------------------
(* C1 *)

\* C1: a luma value is classified dark exactly in [0.062746, 0.380000], light
\* exactly in [0.450000, 0.800000] and random otherwise, the four thresholds
\* included, and screenshots.py classifies every value as framescomp.py does.
ClassifierThresholds ==
    /\ fc_type # "unset" =>
          /\ fc_type = "dark" <=> InsideThresholds(avg, 62746, 380000)
          /\ fc_type = "light" <=> InsideThresholds(avg, 450000, 800000)
          /\ fc_type = "random" <=> /\ ~InsideThresholds(avg, 62746, 380000)
                                    /\ ~InsideThresholds(avg, 450000, 800000)
    /\ (fc_type # "unset" /\ ss_type # "unset") => fc_type = ss_type

\* a threshold value itself has been classified by both tools
ClassifierThresholdsWitness ==
    /\ avg = 800000
    /\ fc_type = "light"
    /\ ss_type = "light"

----------------------------------------------------------------------------
(* C2 *)

\* C2: every candidate group holds one frame per source, in source order, at
\* index i + sync for one logical position i at which every source has a
\* frame; a position at which some source has no frame yields no group; the
\* groups are listed by increasing logical position.
GroupsAligned ==
    /\ \A n \in DOMAIN frames :
          \E pos \in Scanned : AlignedAt(frames[n], pos) /\ AllInRange(pos)
    /\ \A pos \in Scanned : ~AllInRange(pos) => ~Survives(pos)
    /\ \A m, n \in DOMAIN frames :
          m < n => LogicalPosition(frames[m]) < LogicalPosition(frames[n])

\* three sources with unequal offsets: two groups kept, one position dropped
GroupsAlignedWitness ==
    /\ pc = "filter"
    /\ Len(files_to_process) = 3
    /\ files_to_process[1].sync # files_to_process[2].sync
    /\ Len(frames) >= 2
    /\ \E pos \in Scanned : ~AllInRange(pos)

----------------------------------------------------------------------------
(* C3 *)

\* C3 as stated: unless FRAMES_TYPE is False, a group whose members are all in
\* range survives iff its picture types are pairwise equal; with False the
\* picture types discard nothing.
SurvivesIffTypesEqual ==
    \A pos \in Scanned :
        AllInRange(pos) =>
            IF FRAMES_TYPE = "False" THEN Survives(pos)
            ELSE Survives(pos) <=> PairwiseEqualTypes(pos)

\* C3 amended: with FRAMES_TYPE None a group whose members are all in range
\* survives iff its picture types are pairwise equal; with FRAMES_TYPE a type
\* I, P or B it survives iff every member has that type; with False the
\* picture types discard nothing.
SurvivesIffTypesAgree ==
    \A pos \in Scanned :
        AllInRange(pos) =>
            CASE FRAMES_TYPE = "False" -> Survives(pos)
              [] FRAMES_TYPE = "None" -> Survives(pos) <=> PairwiseEqualTypes(pos)
              [] OTHER -> Survives(pos) <=> AllOfType(pos, FRAMES_TYPE)

\* FRAMES_TYPE is I: a group of I frames is kept, a group of equal types that
\* are not I is dropped
SurvivesIffTypesAgreeWitness ==
    /\ pc = "filter"
    /\ FRAMES_TYPE = "I"
    /\ \E pos \in Scanned : AllInRange(pos) /\ Survives(pos)
    /\ \E pos \in Scanned :
          AllInRange(pos) /\ PairwiseEqualTypes(pos) /\ ~Survives(pos)

----------------------------------------------------------------------------
(* C4 *)

\* C4: a candidate group is in the bucket of c iff every member is classified
\* c; a group of mixed classifications is in no bucket, two buckets share no
\* group, and a mixed group is the group found for the custom request of one
\* of its frames.
BucketMembership ==
    /\ \A c \in DOMAIN buckets :
          /\ Range(buckets[c]) \subseteq Range(frames)
          /\ \A n \in DOMAIN frames :
                frames[n] \in Range(buckets[c]) <=> Classes(frames[n]) = {c}
    /\ \A c1, c2 \in DOMAIN buckets :
          c1 # c2 => Range(buckets[c1]) \cap Range(buckets[c2]) = {}
    /\ \A n \in DOMAIN frames :
          Mixed(frames[n]) =>
              /\ \A c \in DOMAIN buckets : frames[n] \notin Range(buckets[c])
              /\ ScanFinished =>
                    \E k \in DOMAIN frames[n] :
                        find_group(frames[n][k].file, frames[n][k].index) = n
    /\ \A c \in Standard : \A g \in Range(captures[c]) : Classes(g) = {c}

\* a mixed group was left out of the dark bucket and selected by a custom request
BucketMembershipWitness ==
    /\ "dark" \in DOMAIN buckets
    /\ buckets["dark"] # <<>>
    /\ \E g \in Range(captures["custom"]) :
          Mixed(g) /\ Plain(g) \in Range(frames) /\ Plain(g) \notin Range(buckets["dark"])

----------------------------------------------------------------------------
(* C5 *)

\* C5: once a bucket with requested count K >= 1 has been handled, min(K, B)
\* groups of it are selected, B the number of candidate groups whose members
\* are all of that class; they are distinct groups of the bucket; no error is
\* raised before publishing.
SamplingExact ==
    /\ \A c \in Standard :
          (BucketDone(c) /\ requested(c) >= 1) =>
              /\ Len(captures[c]) = Min(requested(c), Cardinality(BucketSet(c)))
              /\ \A m, n \in DOMAIN captures[c] :
                    m # n => captures[c][m] # captures[c][n]
              /\ \A g \in Range(captures[c]) :
                    \E n \in BucketSet(c) : Plain(g) = frames[n]
    /\ exit_code = "exception" => requests # <<>>

\* two dark groups requested, one available: one selected
SamplingExactWitness ==
    /\ BucketDone("dark")
    /\ DARK_FRAMES = 2
    /\ Cardinality(BucketSet("dark")) = 1
    /\ Len(captures["dark"]) = 1
    /\ BucketDone("light")
    /\ LIGHT_FRAMES = 1
    /\ BucketSet("light") = {}
    /\ captures["light"] = <<>>

----------------------------------------------------------------------------
(* C6 *)

\* the pair is a frame of a group already selected in some category
PairSelected(filepath, frame_index) ==
    \E c \in Categories : \E g \in Range(captures[c]) :
        <<filepath, frame_index>> \in Pairs(g)

\* positions of the candidate groups holding the pair
GroupsHolding(filepath, frame_index) ==
    {n \in DOMAIN frames : <<filepath, frame_index>> \in Pairs(frames[n])}

\* C6: a custom request whose (source, frame index) pair is a frame of a group
\* already selected is reported "already used" and selects nothing; one whose
\* pair is in no candidate group is reported "not available" and selects
\* nothing; any other adds one candidate group holding the pair to the
\* custom category and changes no other category.
CustomRequestHandled ==
    [][pc = "custom" =>
        LET request == CUSTOM_FRAMES[custom_idx]
            filepath == FILES[request.file_index + 1].file
            holding == GroupsHolding(filepath, request.frame_index)
        IN  IF PairSelected(filepath, request.frame_index)
            THEN /\ captures' = captures
                 /\ console' = Append(console, "already used")
            ELSE IF holding = {}
            THEN /\ captures' = captures
                 /\ console' = Append(console, "not available")
            ELSE /\ console' = console
                 /\ Len(captures'["custom"]) = Len(captures["custom"]) + 1
                 /\ SubSeq(captures'["custom"], 1, Len(captures["custom"]))
                        = captures["custom"]
                 /\ \E n \in holding :
                        Plain(captures'["custom"][Len(captures'["custom"])]) = frames[n]
                 /\ \A c \in Standard : captures'[c] = captures[c]
    ]_vars

\* the three outcomes in one run: a group added, a request for a pair of a
\* selected group refused, a request for a pair of no group refused
CustomRequestHandledWitness ==
    /\ custom_idx > Len(CUSTOM_FRAMES)
    /\ Len(CUSTOM_FRAMES) = 3
    /\ \E n \in DOMAIN console : console[n] = "already used"
    /\ \E n \in DOMAIN console : console[n] = "not available"
    /\ Len(captures["custom"]) = 1
    /\ captures["dark"] # <<>>

----------------------------------------------------------------------------
(* C7 *)

\* C7: no (source, frame index) pair is a frame of two selected groups.
NoPairSelectedTwice ==
    \A m, n \in DOMAIN Selection :
        m # n => Pairs(Selection[m]) \cap Pairs(Selection[n]) = {}

\* the same with every configured source a different file
NoPairSelectedTwiceDistinctFiles ==
    (\A a, b \in DOMAIN FILES : a # b => FILES[a].file # FILES[b].file)
        => NoPairSelectedTwice

----------------------------------------------------------------------------
(* C8 *)

\* C8: when the run is rejected for its configuration, no source file has
\* been handed to the decoder.
RejectedBeforeAnyIO ==
    pc = "exit" => /\ exit_code = "1"
                   /\ opened = {}

----------------------------------------------------------------------------
(* C9 *)

UrlReported == \E n \in DOMAIN console : console[n] = "slowpics url"

\* C9: a response that is not a success is the last request of the run, and
\* no URL is reported after it.
FailureAbortsPublishing ==
    \A n \in DOMAIN requests :
        requests[n].status # "ok" => /\ n = Len(requests)
                                     /\ ~UrlReported

\* the same for the requests whose response the code examines
CheckedFailureAbortsPublishing ==
    \A n \in DOMAIN requests :
        (requests[n].status # "ok" /\ requests[n].to # "comparison page")
            => /\ n = Len(requests)
               /\ ~UrlReported
               /\ exit_code = "exception"

----------------------------------------------------------------------------
(* C10 *)

\* groups in the order of the declaration: custom first, the key of line 266
DeclarationOrder ==
    captures["custom"] \o captures["dark"] \o captures["light"] \o captures["random"]

DeclaredCategory(n) ==
    IF n <= Len(captures["custom"]) THEN "custom"
    ELSE IF n <= Len(captures["custom"]) + Len(captures["dark"]) THEN "dark"
    ELSE IF n <= Len(captures["custom"]) + Len(captures["dark"]) + Len(captures["light"])
    THEN "light"
    ELSE "random"

ImageUploads == {n \in DOMAIN requests : requests[n].to = "upload/image"}

SlotsDeclared ==
    /\ Len(fields) = Len(DeclarationOrder)
    /\ \A c \in DOMAIN fields :
          /\ fields[c].name = DeclaredCategory(c)
          /\ fields[c].imageNames =
                [j \in DOMAIN DeclarationOrder[c] |-> Name(DeclarationOrder[c][j].file)]

\* C10: every selected group is declared as one comparison named after its
\* category with one slot per member in source order; the image uploaded to
\* slot (c, j) is the picture of member j of the group declared at c; the URL
\* is reported only after an image was uploaded to every slot.
UploadsMatchDeclaredSlots ==
    /\ pc \in {"session_get", "post", "upload", "report"} => SlotsDeclared
    /\ \A n \in ImageUploads :
          LET member == DeclarationOrder[requests[n].imageUuid[1]][requests[n].imageUuid[2]]
          IN  requests[n].file = [file |-> member.file, index |-> member.index]
    /\ UrlReported =>
          \A c \in DOMAIN fields : \A j \in DOMAIN fields[c].imageNames :
              \E n \in ImageUploads :
                  requests[n].imageUuid = <<c, j>> /\ requests[n].status = "ok"

\* the same for configured sources of pairwise different file names
UploadsUseDeclaredFiles ==
    /\ pc \in {"session_get", "post", "upload", "report"} => SlotsDeclared
    /\ \A n \in ImageUploads :
          LET member == DeclarationOrder[requests[n].imageUuid[1]][requests[n].imageUuid[2]]
          IN  (Cardinality({Name(file.file) : file \in Range(FILES)}) = Len(FILES))
                  => requests[n].file = [file |-> member.file, index |-> member.index]
    /\ UrlReported =>
          \A c \in DOMAIN fields : \A j \in DOMAIN fields[c].imageNames :
              \E n \in ImageUploads :
                  requests[n].imageUuid = <<c, j>> /\ requests[n].status = "ok"

----------------------------------------------------------------------------
(* C11 *)

Exports == UNION {{g[k].capture : k \in DOMAIN g} : g \in Range(Selection)}

ExportNamed(frame) ==
    frame.capture.name = <<md5(Name(frame.file)), frame.index>>

\* C11: after cleanup, with retention enabled and a retention path set every
\* exported image is a file <hash of the source name>-<frame index>.png under
\* the retention path and still exists; with retention disabled every export
\* was written to the temporary directory, of which nothing is left.
RetainedImagesSurvive ==
    pc = "done" =>
        /\ \A g \in Range(Selection) : \A k \in DOMAIN g : ExportNamed(g[k])
        /\ IF KEEP_IMAGES /\ KEEP_IMAGES_PATH # "None"
           THEN \A o \in Exports : o.dir = KEEP_IMAGES_PATH /\ o \in DOMAIN disk
           ELSE /\ \A o \in Exports : o.dir = "TEMP_DIR"
                /\ DOMAIN disk = {}

\* the same where retention is disabled
TemporaryImagesRemoved ==
    (pc = "done" /\ ~KEEP_IMAGES) =>
        /\ \A o \in Exports : o.dir = "TEMP_DIR"
        /\ DOMAIN disk = {}

----------------------------------------------------------------------------
(* C12 *)

Warned(c) == \E n \in DOMAIN console : console[n] = no_scene(c)

AllResponsesOk == \A n \in DOMAIN requests : requests[n].status = "ok"

\* C12: a requested bucket without candidate groups is skipped with a warning
\* and is no error: when every request of the publisher succeeds the run
\* raises nothing, and it ends after cleanup with exit status 0.
EmptyBucketIsNoError ==
    /\ \A c \in Standard :
          (BucketDone(c) /\ requested(c) >= 1 /\ BucketSet(c) = {}) => Warned(c)
    /\ ((\E c \in Standard : Warned(c)) /\ AllResponsesOk) => exit_code # "exception"
    /\ pc = "done" => exit_code = "0"

\* the same when publishing is disabled or some group is selected
EmptyBucketIsNoErrorWhenSelected ==
    /\ \A c \in Standard :
          (BucketDone(c) /\ requested(c) >= 1 /\ BucketSet(c) = {}) => Warned(c)
    /\ ((\E c \in Standard : Warned(c)) /\ AllResponsesOk
            /\ (~SLOWPICS_ENABLED \/ Selection # <<>>))
          => exit_code # "exception"
    /\ pc = "done" => exit_code = "0"

----------------------------------------------------------------------------
(* C13 *)

Exhausted(c) ==
    BucketDone(c) /\ requested(c) >= 1 /\ requested(c) > Cardinality(BucketSet(c))

\* C13 as stated: for a bucket whose requested count exceeds the groups
\* available, a warning is reported and the available number is selected.
ExhaustedBucketWarned ==
    \A c \in Standard :
        Exhausted(c) => /\ Warned(c)
                        /\ Len(captures[c]) = Cardinality(BucketSet(c))

\* C13 amended: for a bucket whose requested count exceeds the groups
\* available the available number is selected and the run continues; a
\* warning is reported exactly when no group is available.
ExhaustedBucketClamped ==
    /\ \A c \in Standard :
          Exhausted(c) => /\ Len(captures[c]) = Cardinality(BucketSet(c))
                          /\ Warned(c) <=> BucketSet(c) = {}
    /\ exit_code = "exception" => requests # <<>>

\* two dark groups requested, one available and selected without a warning,
\* and the run has ended normally
ExhaustedBucketClampedWitness ==
    /\ pc = "done"
    /\ DARK_FRAMES = 2
    /\ Cardinality(BucketSet("dark")) = 1
    /\ Len(captures["dark"]) = 1
    /\ ~Warned("dark")
    /\ console = <<>>

----------------------------------------------------------------------------
(* C14 *)

SelectedFrames == UNION {Range(g) : g \in Range(Selection)}

\* C14: two selected frames of different (source, frame index) pairs are
\* exported to different files, so that no export overwrites another, and
\* every export holds the picture of its own frame while it exists.
ExportFilesDistinct ==
    /\ \A a, b \in SelectedFrames :
          <<a.file, a.index>> # <<b.file, b.index>> => a.capture # b.capture
    /\ \A a \in SelectedFrames :
          a.capture \in DOMAIN disk =>
              disk[a.capture] = [file |-> a.file, index |-> a.index]

\* the same for configured sources of pairwise different file names
ExportFilesDistinctForDistinctNames ==
    (Cardinality({Name(file.file) : file \in Range(FILES)})
        = Cardinality({file.file : file \in Range(FILES)}))
        => ExportFilesDistinct

----------------------------------------------------------------------------
(* C15 *)

LongestClip ==
    CHOOSE n \in {num_frames(file.file) : file \in Range(files_to_process)} :
        \A k \in DOMAIN files_to_process : num_frames(files_to_process[k].file) <= n

\* every integer position at which some source can have a frame
Positions == (-MaxSync)..(MaxFrames + MaxSync)

\* C15 as stated: with picture-type filtering disabled, the candidate list
\* holds the group of every integer logical position at which every source
\* has a frame.
EveryAlignablePositionKept ==
    (ScanFinished /\ FRAMES_TYPE = "False") =>
        \A pos \in Positions : AllInRange(pos) => Survives(pos)

\* C15 amended: with picture-type filtering disabled, the candidate list
\* holds the group of every logical position from 0 up to, not including, the
\* largest frame count at which every source has a frame.
EveryScannedAlignablePositionKept ==
    (ScanFinished /\ FRAMES_TYPE = "False") =>
        \A pos \in 0..(LongestClip - 1) : AllInRange(pos) => Survives(pos)

\* offsets of both signs: a position is kept, and both sources have a frame
\* at a position below 0 that the list does not hold
EveryScannedAlignablePositionKeptWitness ==
    /\ pc = "filter"
    /\ FRAMES_TYPE = "False"
    /\ \E a, b \in DOMAIN files_to_process :
          files_to_process[a].sync < 0 /\ files_to_process[b].sync > 0
    /\ \E pos \in 0..(LongestClip - 1) : AllInRange(pos) /\ Survives(pos)

----------------------------------------------------------------------------
(* C16 *)

\* UPLOAD_PROVIDER passes the checks of lines 350-356 as a provider name
ProviderAccepted == Truthy(UPLOAD_PROVIDER) /\ lower(UPLOAD_PROVIDER) \in provider_names

\* every frame to export has been saved and line 395 has been passed
PastDispatch ==
    /\ pc \in {"shot_upload", "shot_cleanup", "done", "crashed"}
    /\ Len(files) = FRAMES_COUNT + Len(CUSTOM_FRAMES)

\* C16, first half: a provider value accepted by validation is, once the
\* frames are saved, dispatched to the uploader it names.
AcceptedProviderDispatched ==
    (ProviderAccepted /\ PastDispatch) => uploader = lower(UPLOAD_PROVIDER)

\* C16, second half: a value naming none of the three providers is rejected
\* with exit code 1 before the source is opened.
UnknownProviderRejected ==
    (Truthy(UPLOAD_PROVIDER) /\ ~ProviderAccepted) =>
        \/ pc = "shot_validate"
        \/ pc = "exit" /\ exit_code = "1" /\ opened = {}

\* C16 as stated: every UPLOAD_PROVIDER value accepted by validation reaches
\* its matching uploader without an error, and every value naming none of the
\* three providers is rejected with a non-zero exit before the source is
\* opened.
ProviderAcceptedIffDispatched == AcceptedProviderDispatched /\ UnknownProviderRejected

\* what does hold: a provider written exactly as a key of the dispatch table
\* reaches its uploader
ExactProviderDispatched ==
    (UPLOAD_PROVIDER \in uploaders /\ PastDispatch) => uploader = UPLOAD_PROVIDER

----------------------------------------------------------------------------
(* C17 *)

\* lines 375-381 have been passed
FramesChecked ==
    pc \in {"shot_sample", "shot_save", "shot_dispatch", "shot_upload",
            "shot_cleanup", "done", "crashed"}

\* line 383 has been passed
FramesSampled == FramesChecked /\ pc # "shot_sample"

CustomInRange ==
    \A n \in DOMAIN CUSTOM_FRAMES :
        0 <= CUSTOM_FRAMES[n] /\ CUSTOM_FRAMES[n] < num_frames(FILE)

\* FRAMES_COUNT sampled indices of the clip, pairwise distinct and disjoint
\* from the custom indices
SampleExact ==
    /\ Len(frames_index) = FRAMES_COUNT
    /\ \A a, b \in DOMAIN frames_index : a # b => frames_index[a] # frames_index[b]
    /\ \A a \in DOMAIN frames_index :
          /\ frames_index[a] \in 0..(num_frames(FILE) - 1)
          /\ frames_index[a] \notin Range(CUSTOM_FRAMES)

\* the files written so far are those of the sampled indices followed by the
\* custom indices, in order
ExportedInOrder ==
    /\ Len(files) <= Len(export_order)
    /\ \A k \in DOMAIN files :
          files[k] = screenshots_save_frame(FILE, [index |-> export_order[k]])

\* C17 as stated: a CUSTOM_FRAMES list that passes validation holds only
\* indices in [0, num_frames), and the exported frames are exactly FRAMES_COUNT
\* sampled indices, pairwise distinct and disjoint from the custom indices,
\* followed by the custom indices.
ValidatedCustomFramesExported ==
    /\ FramesChecked => CustomInRange
    /\ FramesSampled => SampleExact /\ ExportedInOrder
    /\ (FramesSampled /\ pc \notin {"shot_save", "crashed"}) =>
           Len(files) = Len(export_order)

\* what does hold: the sampled part and the order of the export
SampledFramesExported ==
    /\ FramesSampled => SampleExact /\ ExportedInOrder
    /\ (FramesSampled /\ pc \notin {"shot_save", "crashed"}) =>
           Len(files) = Len(export_order)

====
